---- MODULE Spec2Model ----
(***************************************************************************)
(* The trivia game session engine of src/src/pages/Game.tsx: the React     *)
(* state of the Game component, its event handlers (handleStart,           *)
(* handleOption, next, restart, the name input and the difficulty select), *)
(* the setup effect, the shuffle, and the leaderboard kept in localStorage *)
(* under LB_KEY.  The question bank and DIFFICULTY_POINTS are those of     *)
(* src/unnamed/part_000.  Sound effects (useGameSounds) only drive the     *)
(* audio device and are left out; the toast is kept as the title of the    *)
(* last notification raised.                                               *)
(*                                                                         *)
(* Spec is the game on the bank of part_000.  SpecStarved is the same game *)
(* built with a bank short of questions.  SpecSelect runs the useMemo      *)
(* callback alone, with the pool, the category and the slice size as       *)
(* inputs; the category test is that of part_000.                          *)
(*                                                                         *)
(* Every handler runs to completion before the next event (React flushes   *)
(* the re-render and the passive effects of a discrete event before the    *)
(* next one is dispatched), so an action is a handler together with the    *)
(* effect its state change triggers.                                       *)
(***************************************************************************)
EXTENDS Integers, Sequences, FiniteSets, TLC

\* ------------------------------------------------------------------ bounds
\* Number of sessions that may be started in one run.
MaxSessions == 2
\* Longest pool handed to the selector, and largest slice size asked of it,
\* when the selector is run on its own (SpecSelect).
MaxPool == 4
MaxBatch == 3

\* ------------------------------------------------------- program constants
\* slice(0, 10) of the shuffled pool.
BatchSize == 10
\* slice(0, 20) of the sorted leaderboard.
LeaderboardCap == 20

\* null of `selected` and `rank` (number | null).
Null == -1

Difficulty == {"easy", "medium", "hard"}

DIFFICULTY_POINTS == [easy |-> 10, medium |-> 20, hard |-> 30]

\* The question bank: id, category, difficulty, number of options, answerIndex.
QUESTIONS ==
  << [id |-> "hivst-e-1", category |-> "HIV Self-Testing",    difficulty |-> "easy",   nOptions |-> 4, answerIndex |-> 0],
     [id |-> "hivst-m-1", category |-> "HIV Self-Testing",    difficulty |-> "medium", nOptions |-> 4, answerIndex |-> 1],
     [id |-> "hivst-h-1", category |-> "HIV Self-Testing",    difficulty |-> "hard",   nOptions |-> 4, answerIndex |-> 1],
     [id |-> "prep-e-1",  category |-> "PrEP",                difficulty |-> "easy",   nOptions |-> 4, answerIndex |-> 0],
     [id |-> "prep-m-1",  category |-> "PrEP",                difficulty |-> "medium", nOptions |-> 4, answerIndex |-> 1],
     [id |-> "prep-h-1",  category |-> "PrEP",                difficulty |-> "hard",   nOptions |-> 4, answerIndex |-> 0],
     [id |-> "rh-e-1",    category |-> "Reproductive Health", difficulty |-> "easy",   nOptions |-> 4, answerIndex |-> 0],
     [id |-> "rh-m-1",    category |-> "Reproductive Health", difficulty |-> "medium", nOptions |-> 4, answerIndex |-> 0],
     [id |-> "rh-h-1",    category |-> "Reproductive Health", difficulty |-> "hard",   nOptions |-> 4, answerIndex |-> 0] >>

\* ----------------------------------------------------------------- inputs
\* Values typed into the player name input (sequences of characters).
Names == { <<>>, <<" ">>, <<" ", "a", " ">> }

\* Values of new Date().toISOString() at the end of a session.  The engine
\* never reads a date; "T0" is a date only entries of earlier visits carry.
Timestamps == {"T1"}

\* Outcome of localStorage.setItem in one next(): it returns, or it throws
\* (quota exceeded, storage disabled).
Faults == {"none", "setItem"}

\* ---------------------------------------------------------------- helpers
Min(a, b) == IF a < b THEN a ELSE b

\* Array.prototype.slice(from, to) with 0 <= from <= to.
Slice(s, from, to) == SubSeq(s, from + 1, Min(to, Len(s)))

IsSpace(c) == c = " "

\* String.prototype.trim(): drops the leading and the trailing whitespace.
RECURSIVE TrimStart(_)
TrimStart(s) ==
  IF s # <<>> /\ IsSpace(Head(s)) THEN TrimStart(Tail(s)) ELSE s

RECURSIVE TrimEnd(_)
TrimEnd(s) ==
  IF s # <<>> /\ IsSpace(s[Len(s)]) THEN TrimEnd(SubSeq(s, 1, Len(s) - 1)) ELSE s

\* trim that forgets the trailing whitespace.
trimStartOnly(s) == TrimStart(s)

trim(s) == TrimEnd(TrimStart(s))

\* The swap that only assigns a[i] = a[j].
SwapCopy(a, i, j) ==
  [k \in 1..Len(a) |-> IF k = i THEN a[j] ELSE a[k]]

\* [a[i], a[j]] = [a[j], a[i]] on 1-based positions.
Swap(a, i, j) ==
  [k \in 1..Len(a) |-> IF k = i THEN a[j] ELSE IF k = j THEN a[i] ELSE a[k]]

\* The values Math.floor(Math.random() * (i + 1)) can take over one shuffle
\* of n elements: for each 0-based i in 1..n-1 a j in 0..i.
RandomDraws(n) == { r \in [1..(n - 1) -> 0..(n - 1)] : \A i \in 1..(n - 1) : r[i] <= i }

\* The loop of shuffle: for (let i = a.length - 1; i > 0; i--), i 0-based.
RECURSIVE ShuffleFrom(_, _, _)
ShuffleFrom(a, i, rnd) ==
  IF i > 0 THEN ShuffleFrom(Swap(a, i + 1, rnd[i] + 1), i - 1, rnd) ELSE a

shuffle(arr, rnd) == ShuffleFrom(arr, Len(arr) - 1, rnd)

\* The category select of the category-scoped build (part_000) holds one of
\* the categories; AnyCategory stands for the build without the category
\* test (Game.tsx).
AnyCategory == "any"

\* QUESTIONS.filter(q => q.difficulty === difficulty), and in the
\* category-scoped build q.category === category && q.difficulty === difficulty.
Pool(bank, category, d) ==
  SelectSeq(bank, LAMBDA q : (category = AnyCategory \/ q.category = category) /\ q.difficulty = d)

\* shuffle(pool).slice(0, n) for one run of the random draws.
selectWith(bank, category, d, n, rnd) == Slice(shuffle(Pool(bank, category, d), rnd), 0, n)

\* The values the useMemo callback can return: shuffle(pool).slice(0, n)
\* over every run of the random draws.
Select(bank, category, d, n) ==
  { selectWith(bank, category, d, n, rnd) : rnd \in RandomDraws(Len(Pool(bank, category, d))) }

\* Banks short of questions: the first k questions of QUESTIONS, which leave
\* a difficulty with fewer questions than a batch asks for, or with none.
StarvedSizes == {0, 2, 5}
StarvedBanks == { SubSeq(QUESTIONS, 1, k) : k \in StarvedSizes }

Banks == {QUESTIONS} \cup StarvedBanks

\* The batches of Game.tsx for each bank and difficulty.
Filtered == [b \in Banks |-> [d \in Difficulty |-> Select(b, AnyCategory, d, BatchSize)]]

\* ------------------------------------------------------ leaderboard store
\* The value kept under LB_KEY: kind says what localStorage.getItem returns
\* (no item; text JSON.parse rejects; the JSON texts null, a
\* number, an object; the JSON text of an array), list holds the entries of
\* an array, in order, as records name, score, date.
StoreKinds == {"absent", "unparsable", "null", "number", "object", "array"}

Stored(kind, list) == [kind |-> kind, list |-> list]

\* ScoreEntry as JSON text holds it.
ScoreEntry(name, score, date) == [name |-> name, score |-> score, date |-> date]

\* JSON.parse of an array: fresh objects, told apart from every other object
\* by their identity ref (1, 2, ... in array order; 0 is the entry next() builds).
Parse(list) ==
  [i \in 1..Len(list) |->
     [ref |-> i, name |-> list[i].name, score |-> list[i].score, date |-> list[i].date]]

\* JSON.stringify of an array of entries: the fields, without the identity.
Stringify(objs) ==
  [i \in 1..Len(objs) |-> ScoreEntry(objs[i].name, objs[i].score, objs[i].date)]

\* readLeaderboard: [] when the item is missing (raw is falsy) and when
\* JSON.parse throws; else whatever JSON.parse returns.
readLeaderboard(store) ==
  IF store.kind \in {"absent", "unparsable"} THEN [type |-> "array", items |-> <<>>]
  ELSE IF store.kind = "array" THEN [type |-> "array", items |-> Parse(store.list)]
  ELSE [type |-> store.kind, items |-> <<>>]

\* writeLeaderboard: setItem(LB_KEY, JSON.stringify(list)); it throws when
\* setItem throws and nothing catches it.
writeLeaderboard(list, fault) ==
  IF fault = "setItem"
    THEN [threw |-> TRUE, store |-> Stored("absent", <<>>)]
    ELSE [threw |-> FALSE, store |-> Stored("array", Stringify(list))]

\* The comparator written ascending: a.score - b.score.
compareAscending(a, b) == a.score - b.score

\* The comparator (a, b) => b.score - a.score.
compare(a, b) == b.score - a.score

\* The insertion that puts an element before its equals.
RECURSIVE InsertAtBeforeEquals(_, _, _)
InsertAtBeforeEquals(sorted, e, k) ==
  IF k > Len(sorted) THEN Append(sorted, e)
  ELSE IF compare(sorted[k], e) >= 0
    THEN SubSeq(sorted, 1, k - 1) \o <<e>> \o SubSeq(sorted, k, Len(sorted))
    ELSE InsertAtBeforeEquals(sorted, e, k + 1)

\* Array.prototype.sort with `compare`: stable (ES2019), so an element goes
\* before the first element it must precede and after its equals.
RECURSIVE InsertAt(_, _, _)
InsertAt(sorted, e, k) ==
  IF k > Len(sorted) THEN Append(sorted, e)
  ELSE IF compare(sorted[k], e) > 0
    THEN SubSeq(sorted, 1, k - 1) \o <<e>> \o SubSeq(sorted, k, Len(sorted))
    ELSE InsertAt(sorted, e, k + 1)

RECURSIVE SortFrom(_, _, _)
SortFrom(arr, k, acc) ==
  IF k > Len(arr) THEN acc ELSE SortFrom(arr, k + 1, InsertAt(acc, arr[k], 1))

sort(arr) == SortFrom(arr, 1, <<>>)

\* findIndex matching on the fields of the entry instead of the object.
findIndexByFields(arr, entry) ==
  LET same(e) == e.name = entry.name /\ e.score = entry.score /\ e.date = entry.date
  IN  IF \E i \in 1..Len(arr) : same(arr[i])
        THEN (CHOOSE i \in 1..Len(arr) :
                same(arr[i]) /\ \A k \in 1..(i - 1) : ~same(arr[k])) - 1
        ELSE -1

\* updated.findIndex(e => e === entry): the 0-based index of the object
\* `entry` itself, -1 when it is not in the array.
findIndex(arr, entry) ==
  IF \E i \in 1..Len(arr) : arr[i].ref = entry.ref
    THEN (CHOOSE i \in 1..Len(arr) :
            /\ arr[i].ref = entry.ref
            /\ \A k \in 1..(i - 1) : arr[k].ref # entry.ref) - 1
    ELSE -1

\* The update without the slice(0, 20).
UpdatedNoSlice(items, entry) == sort(Append(items, entry))

\* [...lb, entry].sort(...).slice(0, 20)
Updated(items, entry) == Slice(sort(Append(items, entry)), 0, LeaderboardCap)

\* ------------------------------------------------------------------ state
VARIABLES
  bank,          \* the array QUESTIONS the component was built with
  selector,      \* the category and the slice size of the useMemo callback
  playerName,    \* useState(""): the text of the name input
  difficulty,    \* useState("easy")
  filtered,      \* the memoised batch of useMemo(..., [difficulty])
  step,          \* "setup" | "playing" | "result"
  currentIdx,    \* 0-based index of the current question
  score,
  selected,      \* option picked for the current question, or Null
  questions,     \* the batch of the session
  rank,          \* rank shown on the result page, or Null
  storage,       \* the value under LB_KEY in localStorage
  toast,         \* title of the last toast raised ("" before the first)
  thrown,        \* exception the last handler ended with ("" when it returned)
  ignored,       \* handleOption ran again on the current, answered question
  correctSoFar,  \* questions already left whose pick equalled answerIndex
  updated,       \* the array `updated` of the next() that ended the session
  writes,        \* successful localStorage.setItem calls
  sessions       \* sessions started

vars == << bank, selector, playerName, difficulty, filtered, step, currentIdx, score, selected,
           questions, rank, storage, toast, thrown, ignored, correctSoFar,
           updated,
           writes, sessions >>

\* const total = questions.length
total == Len(questions)

\* const current = questions[currentIdx] is defined
HasCurrent == currentIdx < total

current == questions[currentIdx + 1]

\* n entries name/score/date.
Rep(n, e) == [i \in 1..n |-> e]

\* Values found under LB_KEY when the page is opened: nothing, text that is
\* no JSON array, and arrays of entries left by earlier visits or by other
\* code of the origin: a full board of high scores, a board one short of the
\* cap whose tail equals the entry a session of "a" can produce, and an
\* unsorted array longer than the cap.
InitialStores ==
  { Stored("absent", <<>>), Stored("unparsable", <<>>),
    Stored("null", <<>>), Stored("number", <<>>), Stored("object", <<>>),
    Stored("array", Rep(8, ScoreEntry(<<"b">>, 50, "T0")) \o Rep(12, ScoreEntry(<<"b">>, 40, "T0"))),
    Stored("array", Rep(10, ScoreEntry(<<"b">>, 40, "T0")) \o Rep(9, ScoreEntry(<<"a">>, 10, "T1"))),
    Stored("array", Rep(20, ScoreEntry(<<"b">>, 0, "T0")) \o << ScoreEntry(<<"b">>, 30, "T0") >>) }

\* The selector of Game.tsx: no category test, slice(0, 10).
GameSelector == [category |-> AnyCategory, size |-> BatchSize, called |-> FALSE]

\* The component after mounting with bank b: the initial useState values,
\* the first shuffle, and the setup effect run once.
Mounted(b) ==
  /\ bank = b
  /\ selector = GameSelector
  /\ playerName = <<>>
  /\ difficulty = "easy"
  /\ filtered \in Filtered[b]["easy"]
  /\ step = "setup"
  /\ currentIdx = 0
  /\ score = 0
  /\ selected = Null
  /\ questions = filtered
  /\ rank = Null
  /\ storage \in InitialStores
  /\ toast = ""
  /\ thrown = ""
  /\ ignored = FALSE
  /\ correctSoFar = 0
  /\ updated = <<>>
  /\ writes = 0
  /\ sessions = 0

Init == Mounted(QUESTIONS)

\* The setup effect without setScore(0) and setRank(null).
SetupEffectKeepsScore(f) ==
  /\ questions' = f
  /\ currentIdx' = 0
  /\ score' = score
  /\ selected' = Null
  /\ rank' = rank
  /\ ignored' = FALSE
  /\ correctSoFar' = 0
  /\ updated' = <<>>

\* The effect of useEffect(..., [filtered, step]) when step is "setup".
SetupEffect(f) ==
  /\ questions' = f
  /\ currentIdx' = 0
  /\ score' = 0
  /\ selected' = Null
  /\ rank' = Null
  /\ ignored' = FALSE
  /\ correctSoFar' = 0
  /\ updated' = <<>>

\* onChange of the name input (rendered in setup only).
setPlayerName(v) ==
  /\ step = "setup"
  /\ playerName' = v
  /\ thrown' = ""
  /\ UNCHANGED << bank, selector, difficulty, filtered, step, currentIdx, score, selected, questions,
                  rank, storage, toast, ignored, correctSoFar, updated, writes, sessions >>

\* onValueChange of the difficulty select (rendered in setup only): a new
\* value recomputes the memo, and the new `filtered` fires the setup effect.
setDifficulty(d) ==
  /\ step = "setup"
  /\ thrown' = ""
  /\ IF d = difficulty
       THEN UNCHANGED << difficulty, filtered, questions, currentIdx, score, selected,
                         rank, ignored, correctSoFar, updated >>
       ELSE /\ difficulty' = d
            /\ filtered' \in Filtered[bank][d]
            /\ SetupEffect(filtered')
  /\ UNCHANGED << bank, selector, playerName, step, storage, toast, writes, sessions >>

\* handleStart testing the name without trimming it.
handleStartNoTrim ==
  /\ step = "setup"
  /\ thrown' = ""
  /\ IF playerName = <<>>
       THEN /\ toast' = "Enter your name"
            /\ UNCHANGED << step, sessions >>
       ELSE /\ sessions < MaxSessions
            /\ step' = "playing"
            /\ sessions' = sessions + 1
            /\ UNCHANGED toast
  /\ UNCHANGED << bank, selector, playerName, difficulty, filtered, currentIdx, score, selected,
                  questions, rank, storage, ignored, correctSoFar, updated, writes >>

handleStart ==
  /\ step = "setup"
  /\ thrown' = ""
  /\ IF trim(playerName) = <<>>
       THEN /\ toast' = "Enter your name"
            /\ UNCHANGED << step, sessions >>
       ELSE /\ sessions < MaxSessions
            /\ step' = "playing"
            /\ sessions' = sessions + 1
            /\ UNCHANGED toast
  /\ UNCHANGED << bank, selector, playerName, difficulty, filtered, currentIdx, score, selected,
                  questions, rank, storage, ignored, correctSoFar, updated, writes >>

\* handleOption without the early return on an answered question.
handleOptionNoGuard(index) ==
  /\ step = "playing"
  /\ HasCurrent
  /\ index \in 0..(current.nOptions - 1)
  /\ thrown' = ""
  /\ ignored' = (selected # Null)
  /\ selected' = index
  /\ IF index = current.answerIndex
       THEN /\ score' = score + DIFFICULTY_POINTS[difficulty]
            /\ toast' = "Correct!"
       ELSE /\ score' = score
            /\ toast' = "Not quite"
  /\ UNCHANGED << bank, selector, playerName, difficulty, filtered, step, currentIdx, questions, rank,
                  storage, correctSoFar, updated, writes, sessions >>

\* handleOption taking the points back on a wrong pick.
handleOptionPenalty(index) ==
  /\ step = "playing"
  /\ HasCurrent
  /\ index \in 0..(current.nOptions - 1)
  /\ thrown' = ""
  /\ IF selected # Null
       THEN /\ ignored' = TRUE
            /\ UNCHANGED << selected, score, toast >>
       ELSE /\ selected' = index
            /\ UNCHANGED ignored
            /\ IF index = current.answerIndex
                 THEN /\ score' = score + DIFFICULTY_POINTS[difficulty]
                      /\ toast' = "Correct!"
                 ELSE /\ score' = score - DIFFICULTY_POINTS[difficulty]
                      /\ toast' = "Not quite"
  /\ UNCHANGED << bank, selector, playerName, difficulty, filtered, step, currentIdx, questions, rank,
                  storage, correctSoFar, updated, writes, sessions >>

\* onClick of an option button (rendered when step is "playing" and current
\* is defined).
handleOption(index) ==
  /\ step = "playing"
  /\ HasCurrent
  /\ index \in 0..(current.nOptions - 1)
  /\ thrown' = ""
  /\ IF selected # Null
       THEN /\ ignored' = TRUE
            /\ UNCHANGED << selected, score, toast >>
       ELSE /\ selected' = index
            /\ UNCHANGED ignored
            /\ IF index = current.answerIndex
                 THEN /\ score' = score + DIFFICULTY_POINTS[difficulty]
                      /\ toast' = "Correct!"
                 ELSE /\ score' = score
                      /\ toast' = "Not quite"
  /\ UNCHANGED << bank, selector, playerName, difficulty, filtered, step, currentIdx, questions, rank,
                  storage, correctSoFar, updated, writes, sessions >>

\* next leaving the picked option in place on a question that is not the last.
nextKeepsSelected ==
  /\ step = "playing"
  /\ HasCurrent
  /\ IF currentIdx + 1 < total
       THEN /\ thrown' = ""
            /\ ignored' = FALSE
            /\ currentIdx' = currentIdx + 1
            /\ selected' = selected
            /\ correctSoFar' = correctSoFar + (IF selected = current.answerIndex THEN 1 ELSE 0)
            /\ UNCHANGED << step, rank, storage, updated, writes >>
       ELSE \E now \in Timestamps :
            LET entry == [ref |-> 0, name |-> trim(playerName), score |-> score, date |-> now]
                lb    == readLeaderboard(storage)
            IN  \E upd \in {Updated(lb.items, entry)} : \E fault \in Faults :
            LET wr    == writeLeaderboard(upd, fault)
                newRank == findIndex(upd, entry) + 1
            IN  /\ UNCHANGED << currentIdx, selected, ignored, correctSoFar >>
                /\ IF lb.type # "array"
                     THEN /\ thrown' = "TypeError"
                          /\ UNCHANGED << step, rank, storage, updated, writes >>
                     ELSE IF wr.threw
                     THEN /\ thrown' = "QuotaExceededError"
                          /\ UNCHANGED << step, rank, storage, updated, writes >>
                     ELSE /\ thrown' = ""
                          /\ storage' = wr.store
                          /\ writes' = writes + 1
                          /\ updated' = upd
                          /\ rank' = (IF newRank = 0 THEN Null ELSE newRank)
                          /\ step' = "result"
  /\ UNCHANGED << bank, selector, playerName, difficulty, filtered, score, questions, toast, sessions >>

\* next taking the last question for one more to advance from.
nextPastEnd ==
  /\ step = "playing"
  /\ HasCurrent
  /\ IF currentIdx + 1 <= total
       THEN /\ thrown' = ""
            /\ ignored' = FALSE
            /\ currentIdx' = currentIdx + 1
            /\ selected' = Null
            /\ correctSoFar' = correctSoFar + (IF selected = current.answerIndex THEN 1 ELSE 0)
            /\ UNCHANGED << step, rank, storage, updated, writes >>
       ELSE \E now \in Timestamps :
            LET entry == [ref |-> 0, name |-> trim(playerName), score |-> score, date |-> now]
                lb    == readLeaderboard(storage)
            IN  \E upd \in {Updated(lb.items, entry)} : \E fault \in Faults :
            LET wr    == writeLeaderboard(upd, fault)
                newRank == findIndex(upd, entry) + 1
            IN  /\ UNCHANGED << currentIdx, selected, ignored, correctSoFar >>
                /\ IF lb.type # "array"
                     THEN /\ thrown' = "TypeError"
                          /\ UNCHANGED << step, rank, storage, updated, writes >>
                     ELSE IF wr.threw
                     THEN /\ thrown' = "QuotaExceededError"
                          /\ UNCHANGED << step, rank, storage, updated, writes >>
                     ELSE /\ thrown' = ""
                          /\ storage' = wr.store
                          /\ writes' = writes + 1
                          /\ updated' = upd
                          /\ rank' = (IF newRank = 0 THEN Null ELSE newRank)
                          /\ step' = "result"
  /\ UNCHANGED << bank, selector, playerName, difficulty, filtered, score, questions, toast, sessions >>

\* onClick of the Next/Finish button (rendered with the question).  On the
\* last question the entry is added to the leaderboard; an exception of the
\* spread of a non-iterable `lb` or of writeLeaderboard leaves the handler
\* before any setState.
next ==
  /\ step = "playing"
  /\ HasCurrent
  /\ IF currentIdx + 1 < total
       THEN /\ thrown' = ""
            /\ ignored' = FALSE
            /\ currentIdx' = currentIdx + 1
            /\ selected' = Null
            /\ correctSoFar' = correctSoFar + (IF selected = current.answerIndex THEN 1 ELSE 0)
            /\ UNCHANGED << step, rank, storage, updated, writes >>
       ELSE \E now \in Timestamps :
            LET entry == [ref |-> 0, name |-> trim(playerName), score |-> score, date |-> now]
                lb    == readLeaderboard(storage)
            IN  \E upd \in {Updated(lb.items, entry)} : \E fault \in Faults :
            LET wr    == writeLeaderboard(upd, fault)
                newRank == findIndex(upd, entry) + 1
            IN  /\ UNCHANGED << currentIdx, selected, ignored, correctSoFar >>
                /\ IF lb.type # "array"
                     THEN /\ thrown' = "TypeError"
                          /\ UNCHANGED << step, rank, storage, updated, writes >>
                     ELSE IF wr.threw
                     THEN /\ thrown' = "QuotaExceededError"
                          /\ UNCHANGED << step, rank, storage, updated, writes >>
                     ELSE /\ thrown' = ""
                          /\ storage' = wr.store
                          /\ writes' = writes + 1
                          /\ updated' = upd
                          /\ rank' = (IF newRank = 0 THEN Null ELSE newRank)
                          /\ step' = "result"
  /\ UNCHANGED << bank, selector, playerName, difficulty, filtered, score, questions, toast, sessions >>

\* restart going straight to playing: the setup effect never runs.
restartToPlaying ==
  /\ step = "result"
  /\ thrown' = ""
  /\ step' = "playing"
  /\ UNCHANGED << bank, selector, playerName, difficulty, filtered, currentIdx, score, selected, questions,
                  rank, storage, toast, ignored, correctSoFar, updated, writes, sessions >>

\* onClick of Play again (rendered in result): back to setup, where the
\* effect puts the memoised batch back and resets the session.
restart ==
  /\ step = "result"
  /\ thrown' = ""
  /\ step' = "setup"
  /\ SetupEffect(filtered)
  /\ UNCHANGED << bank, selector, playerName, difficulty, filtered, storage, toast, writes, sessions >>

Next ==
  \/ \E v \in Names : setPlayerName(v)
  \/ \E d \in Difficulty : setDifficulty(d)
  \/ handleStart
  \/ \E index \in 0..3 : handleOption(index)
  \/ next
  \/ restart

Spec == Init /\ [][Next]_vars

\* The component built with a bank short of questions.
InitStarved == \E b \in StarvedBanks : Mounted(b)

SpecStarved == InitStarved /\ [][Next]_vars

\* ------------------------------------------------- the selector on its own
\* Questions pools are made of: three easy questions of one category, an
\* easy one of another category, and a hard one.
PoolQuestions ==
  { [id |-> "hivst-e-1", category |-> "HIV Self-Testing", difficulty |-> "easy", nOptions |-> 4, answerIndex |-> 0],
    [id |-> "hivst-e-2", category |-> "HIV Self-Testing", difficulty |-> "easy", nOptions |-> 4, answerIndex |-> 0],
    [id |-> "hivst-e-3", category |-> "HIV Self-Testing", difficulty |-> "easy", nOptions |-> 4, answerIndex |-> 0],
    [id |-> "prep-e-1",  category |-> "PrEP",             difficulty |-> "easy", nOptions |-> 4, answerIndex |-> 0],
    [id |-> "hivst-h-1", category |-> "HIV Self-Testing", difficulty |-> "hard", nOptions |-> 4, answerIndex |-> 1] }

\* Pools: arrays of at most MaxPool questions, each id once.
Pools ==
  { p \in UNION { [1..k -> PoolQuestions] : k \in 0..MaxPool } :
      \A i, j \in 1..Len(p) : i # j => p[i].id # p[j].id }

\* Values of the category select, and AnyCategory for the build without it.
Categories == {"HIV Self-Testing", "PrEP", AnyCategory}

\* A component about to compute `filtered` for the first time.
InitSelect ==
  /\ bank \in Pools
  /\ selector \in [category : Categories, size : 0..MaxBatch, called : {FALSE}]
  /\ difficulty \in Difficulty
  /\ filtered = <<>>
  /\ questions = <<>>
  /\ playerName = <<>>
  /\ step = "setup"
  /\ currentIdx = 0
  /\ score = 0
  /\ selected = Null
  /\ rank = Null
  /\ storage = Stored("absent", <<>>)
  /\ toast = ""
  /\ thrown = ""
  /\ ignored = FALSE
  /\ correctSoFar = 0
  /\ updated = <<>>
  /\ writes = 0
  /\ sessions = 0

\* The useMemo callback runs: filter, shuffle, slice; the setup effect takes
\* the new `filtered`.
computeFiltered ==
  /\ ~selector.called
  /\ \E rnd \in RandomDraws(Len(Pool(bank, selector.category, difficulty))) :
       filtered' = selectWith(bank, selector.category, difficulty, selector.size, rnd)
  /\ selector' = [selector EXCEPT !.called = TRUE]
  /\ SetupEffect(filtered')
  /\ UNCHANGED << bank, playerName, difficulty, step, storage, toast, thrown, writes, sessions >>

NextSelect == computeFiltered

SpecSelect == InitSelect /\ [][NextSelect]_vars

\* ------------------------------------------------------------ properties
\* A name is blank when it holds nothing but whitespace.
IsBlank(s) == \A i \in 1..Len(s) : s[i] = " "

\* n is s without its leading and trailing whitespace.
IsTrimOf(n, s) ==
  /\ n # <<>> => (n[1] # " " /\ n[Len(n)] # " ")
  /\ \E k \in 0..(Len(s) - Len(n)) :
       /\ SubSeq(s, k + 1, k + Len(n)) = n
       /\ \A i \in 1..Len(s) : (i <= k \/ i > k + Len(n)) => s[i] = " "

\* The points the scoring policy states: easy 10, medium 20, hard 30.
StatedPoints(d) == CASE d = "easy" -> 10 [] d = "medium" -> 20 [] d = "hard" -> 30

\* next() is on the last question of the batch.
OnLastQuestion == ~(currentIdx + 1 < total)

\* C1: the phase changes only along the cycle setup -> playing (by
\* handleStart), playing -> result (by next on the last question),
\* result -> setup (by restart); no other phase change occurs, and the only
\* action that leaves result is restart.
C1_PhaseCycle ==
  [][ step' # step =>
        \/ step = "setup" /\ step' = "playing" /\ handleStart
        \/ step = "playing" /\ step' = "result" /\ OnLastQuestion /\ next
        \/ step = "result" /\ step' = "setup" /\ restart ]_vars

\* A second session is being played: the cycle has been gone round once.
C1_Witness == step = "playing" /\ sessions = 2 /\ writes = 1

\* C2: handleStart with a blank player name changes neither the phase nor
\* the batch, the index, the score, the selection, the rank or the persisted
\* leaderboard; with a non-blank name it moves to playing.
C2_BlankNameNoStart ==
  [][ handleStart =>
        IF IsBlank(playerName)
          THEN /\ step' = "setup"
               /\ UNCHANGED << questions, currentIdx, score, selected, rank, storage >>
          ELSE step' = "playing" ]_vars

\* The validation notice is up in setup, the name is whitespace only, and no
\* session was ever started.
C2_Witness ==
  /\ step = "setup"
  /\ toast = "Enter your name"
  /\ playerName = <<" ">>
  /\ sessions = 0

\* C3: once an option is selected for the current question, a further
\* handleOption with any index leaves score and selected as they are.
C3_SubmitOnce ==
  [][ (selected # Null /\ \E index \in 0..3 : handleOption(index)) =>
        (score' = score /\ selected' = selected) ]_vars

\* A second pick was made on an answered question.
C3_Witness == step = "playing" /\ selected # Null /\ ignored

\* Questions up to currentIdx whose recorded pick equalled answerIndex.
CorrectPicks ==
  correctSoFar + (IF HasCurrent /\ selected = current.answerIndex THEN 1 ELSE 0)

\* C4: within a session the score never decreases, and in playing and
\* result it is the stated points of the difficulty times the number of
\* questions up to currentIdx whose recorded pick equalled answerIndex, hence
\* at most points * (currentIdx + 1) and at most points * total.
C4_ScoreIsSumOfAwards ==
  /\ [](step \in {"playing", "result"} =>
          /\ score = StatedPoints(difficulty) * CorrectPicks
          /\ score <= StatedPoints(difficulty) * (currentIdx + 1)
          /\ StatedPoints(difficulty) * (currentIdx + 1) <= StatedPoints(difficulty) * total)
  /\ [][ step' # "setup" => score' >= score ]_vars

\* A hard session ended with two of three picks right.
C4_Witness ==
  /\ step = "result"
  /\ difficulty = "hard"
  /\ score = 60
  /\ CorrectPicks = 2

\* The scores of a list do not increase along it.
SortedDescending(list) ==
  \A i \in 1..Len(list), j \in 1..Len(list) : i < j => list[i].score >= list[j].score

\* C5: the persisted leaderboard changes, and setItem succeeds, only in the
\* step of next on the last question that takes playing to result, once per
\* such step; the entry it ranks carries the trimmed player name and the
\* final score.  handleStart, handleOption, next before the last question,
\* restart and the setup inputs leave the persisted leaderboard alone.
C5_WrittenOncePerSession ==
  /\ [][ (storage' # storage \/ writes' # writes) =>
           /\ step = "playing" /\ step' = "result"
           /\ OnLastQuestion /\ next
           /\ writes' = writes + 1 ]_vars
  /\ [][ (step = "playing" /\ step' = "result") =>
           /\ writes' = writes + 1
           /\ storage'.kind = "array"
           /\ rank' # Null =>
                /\ rank' \in 1..Len(storage'.list)
                /\ IsTrimOf(storage'.list[rank'].name, playerName)
                /\ storage'.list[rank'].score = score'
                /\ storage'.list[rank'].date \in Timestamps ]_vars
  /\ [](writes <= sessions /\ (step = "result" => writes = sessions))

\* The second session of a run has ended and its entry is on the board.
C5_Witness == step = "result" /\ writes = 2 /\ rank # Null

\* C6: once the program has written the leaderboard, whatever was stored
\* before, the persisted value is an array of at most 20 entries whose scores
\* do not increase.
C6_SortedAndCapped ==
  writes > 0 =>
    /\ storage.kind = "array"
    /\ Len(storage.list) <= 20
    /\ SortedDescending(storage.list)

\* A full board of several scores has been written over the unsorted
\* 21-entry array.
C6_Witness ==
  /\ writes > 0
  /\ Len(storage.list) = 20
  /\ storage.list[1].score = 30
  /\ storage.list[2].score = 10
  /\ storage.list[20].score = 0

\* Positions of the entry next() built in the array it persisted.
EntryPositions == { i \in 1..Len(updated) : updated[i].ref = 0 }

\* C7: in result the persisted array is the truncated `updated`, and rank
\* is the 1-based position in it of the entry next() built (of that object,
\* not of an entry with equal fields); rank is Null exactly when the entry is
\* not in the persisted array; a rank is Null or in 1..20.
C7_RankOfInsertedEntry ==
  step = "result" =>
    /\ storage.kind = "array"
    /\ Len(storage.list) = Len(updated)
    /\ Len(updated) <= 20
    /\ \A i \in 1..Len(updated) :
         storage.list[i] = ScoreEntry(updated[i].name, updated[i].score, updated[i].date)
    /\ rank = Null <=> EntryPositions = {}
    /\ rank # Null => (rank \in 1..20 /\ EntryPositions = {rank})

\* The new entry is ranked below an older entry with the same fields.
C7_Witness ==
  /\ step = "result"
  /\ rank # Null
  /\ \E i \in 1..(rank - 1) : storage.list[i] = storage.list[rank]

\* C8: when the stored array holds 20 entries sorted descending, all with a
\* score above the session's, the next() that ends the session leaves rank
\* Null and the persisted array as it was, entry for entry.
C8_LowScoreDropped ==
  [][ ( /\ step = "playing" /\ step' = "result"
        /\ storage.kind = "array"
        /\ Len(storage.list) = 20
        /\ SortedDescending(storage.list)
        /\ \A i \in 1..20 : storage.list[i].score > score )
      => (rank' = Null /\ storage' = storage) ]_vars

\* A session of score 10 ended on a board of 20 entries of 40 and more.
C8_Witness ==
  /\ step = "result"
  /\ score = 10
  /\ rank = Null
  /\ storage.kind = "array"
  /\ Len(storage.list) = 20
  /\ \A i \in 1..20 : storage.list[i].score >= 40

\* C9: whatever is stored that is no array of entries (no item, text that
\* does not parse, JSON null, a number, an object), next on the last
\* question, setItem working, ends the session in result with the persisted
\* array holding exactly the new entry, ranked 1.
C9_CorruptStoreIsEmpty ==
  [][ ( /\ next /\ OnLastQuestion
        /\ storage.kind # "array"
        /\ thrown' # "QuotaExceededError" )
      => /\ step' = "result"
         /\ rank' = 1
         /\ storage'.kind = "array"
         /\ Len(storage'.list) = 1
         /\ storage'.list[1].score = score ]_vars

\* C10: when setItem throws in next on the last question, the session still
\* moves from playing to result.
C10_WriteFaultStillCompletes ==
  [][ (next /\ OnLastQuestion /\ thrown' = "QuotaExceededError") => step' = "result" ]_vars

\* C11: restart from result draws the batch anew: whatever batch was played,
\* every batch the selector can return for the difficulty, a different
\* order included, can be the batch in place after restart.
C11_RestartDrawsFreshBatch ==
  step = "result" =>
    \A f \in Filtered[bank][difficulty] : ENABLED (restart /\ questions' = f)

\* C12: every step from setup to playing, the one after a restart from a
\* result with points and a rank included, ends with currentIdx 0, score 0,
\* no option selected and no rank.
C12_SessionStartsFromInitialValues ==
  [][ (step = "setup" /\ step' = "playing")
      => /\ currentIdx' = 0
         /\ score' = 0
         /\ selected' = Null
         /\ rank' = Null ]_vars

\* The second session has started after a first one that scored 30 and was
\* written to the leaderboard.
C12_Witness ==
  /\ step = "playing"
  /\ sessions = 2
  /\ currentIdx = 0 /\ score = 0 /\ selected = Null /\ rank = Null
  /\ storage.kind = "array"
  /\ \E i \in 1..Len(storage.list) :
       storage.list[i].score = 30 /\ storage.list[i].date = "T1"

\* C13: next on a question that is not the last adds one to currentIdx and
\* clears selected, answered or not, and leaves score, step, the batch and
\* the stored leaderboard as they were.
C13_AdvanceFrame ==
  [][ (step = "playing" /\ currentIdx + 1 < total /\ next)
      => /\ currentIdx' = currentIdx + 1
         /\ selected' = Null
         /\ UNCHANGED << score, step, questions, storage >> ]_vars

\* The first question was left without any option ever clicked.
C13_Witness ==
  /\ step = "playing"
  /\ currentIdx = 1
  /\ toast = ""
  /\ selected = Null
  /\ score = 0

\* Positions of the bank whose question has the difficulty asked for and,
\* with a category chosen, that category.
MatchingPositions ==
  { k \in 1..Len(bank) :
      /\ bank[k].difficulty = difficulty
      /\ selector.category # AnyCategory => bank[k].category = selector.category }

\* C14: whatever the pool, the difficulty, the category and the slice size,
\* and whatever the shuffle draws, the batch holds only questions of that
\* difficulty (and category), no id twice, min(size, matching questions) of
\* them, each at most as often as the matching pool holds it.
C14_SelectorContract ==
  selector.called =>
    /\ \A i \in 1..Len(filtered) :
         /\ filtered[i].difficulty = difficulty
         /\ selector.category # AnyCategory => filtered[i].category = selector.category
    /\ \A i, j \in 1..Len(filtered) : i # j => filtered[i].id # filtered[j].id
    /\ Len(filtered) = Min(selector.size, Cardinality(MatchingPositions))
    /\ \A i \in 1..Len(filtered) :
         Cardinality({ j \in 1..Len(filtered) : filtered[j] = filtered[i] })
           <= Cardinality({ k \in MatchingPositions : bank[k] = filtered[i] })

\* A category-scoped call with more matching questions than asked for: the
\* batch is cut to the size, and starts with a question the shuffle moved.
C14_Witness ==
  /\ selector.called
  /\ selector.category # AnyCategory
  /\ selector.size >= 2
  /\ Cardinality(MatchingPositions) > selector.size
  /\ Len(filtered) = selector.size
  /\ \E k \in MatchingPositions :
       /\ \A m \in MatchingPositions : k <= m
       /\ filtered[1] # bank[k]

C16_IndexScoreAndBatchStable ==
  /\ [] ( /\ 0 <= currentIdx /\ currentIdx <= total
          /\ score >= 0
          /\ (step = "playing" /\ total > 0) => currentIdx < total )
  /\ [][ (step = "playing" /\ step' = "playing")
         => UNCHANGED << questions, difficulty >> ]_vars

\* On the last question of a batch of three, with points scored.
C16_Witness ==
  /\ step = "playing"
  /\ total = 3
  /\ currentIdx = total - 1
  /\ selected # Null
  /\ score = 3 * DIFFICULTY_POINTS[difficulty]

\* Stored entries that score at least as much as the session.
Ahead == Cardinality({ i \in 1..Len(storage.list) : storage.list[i].score >= score })

\* C17: when the stored array is sorted descending, the next() that ends
\* the session puts the new entry after every stored entry scoring at least
\* as much and keeps the stored entries in their order; rank is one more
\* than the number of those entries when that is at most 20, and Null
\* otherwise, in which case the first 20 stored entries stay as they are.
C17_TiesByArrivalOrder ==
  [][ ( /\ step = "playing" /\ step' = "result"
        /\ storage.kind = "array"
        /\ SortedDescending(storage.list) )
      => LET old == storage.list
             new == storage'.list
         IN  /\ Len(new) = Min(Len(old) + 1, 20)
             /\ \A i \in 1..Min(Ahead, 20) : new[i] = old[i]
             /\ IF Ahead + 1 <= 20
                  THEN /\ rank' = Ahead + 1
                       /\ new[Ahead + 1].score = score
                       /\ IsTrimOf(new[Ahead + 1].name, playerName)
                       /\ \A i \in (Ahead + 2)..Len(new) : new[i] = old[i - 1]
                  ELSE rank' = Null ]_vars

\* A session tied the lowest score of a full board of 20 and was dropped.
C17_Witness ==
  /\ step = "result"
  /\ rank = Null
  /\ storage.kind = "array"
  /\ Len(storage.list) = 20
  /\ storage.list[20].score = score
  /\ score > 0

====
